---- MODULE Spec2Model ----
(***************************************************************************)
(* A model of the Vasp calculator core (src/vasp/vasp_core.py): the        *)
(* atom / POTCAR sorter (sort_atoms), the directory state classifier       *)
(* (get_state), the reconciliation of parameters on file (check_state),    *)
(* and the run controller (calculation_required, calculate).               *)
(***************************************************************************)
EXTENDS Integers, Sequences, FiniteSets, TLC

VARIABLES
    atoms,        \* sort_atoms: the structure, a sequence of chemical symbols
    setups,       \* sort_atoms: parameters['setups'], a sequence of overrides
    resort,       \* self.resort   (None until sort_atoms returns)
    ppp_list,     \* self.ppp_list (None until sort_atoms returns)
    sort_exc,     \* outcome of the sort_atoms call
    files,        \* the calculation directory: which files exist, and the
                  \* contents of OUTCAR and CONTCAR
    jobid,        \* get_db('jobid')
    queue,        \* get_state: what in_queue() answered, call by call
    state,        \* get_state: the state returned (NoState: none)
    state_exc,    \* get_state: "not called", None or the exception raised
    cloned,       \* clone: what it did to the copy of the directory
    parameters,   \* self.parameters
    on_file,      \* what read_incar, read_potcar, read_kpoints return,
                  \* and the lines of the POTCAR file
    base_changes, \* what FileIOCalculator.check_state reports
    file_params,  \* check_state: file_params when it ends
    system_changes, \* check_state: the changes returned
    check_exc,    \* check_state: "not called", None or the exception raised
    results,      \* the keys of self.results
    properties,   \* calculate: the properties asked for
    command,      \* self.command
    cwd,          \* the working directory of the process
    cwd0,         \* the working directory when calculate was called
    olddir,       \* calculate: olddir
    errorcode,    \* calculate: errorcode (NoCode: not assigned)
    pc,           \* calculate: where it is
    required,     \* what calculation_required returned to calculate
    calc_exc,     \* calculate: the exception pending or raised
    calls         \* calculate: write_input, engine and read_results calls

sortVars == <<atoms, setups, resort, ppp_list, sort_exc>>
stateVars == <<files, jobid, queue, state, state_exc, cloned>>
checkIn == <<parameters, on_file, base_changes>>
checkOut == <<file_params, system_changes, check_exc>>
checkVars == <<checkIn, checkOut>>
runIn == <<results, properties, command, cwd0>>
runVars == <<runIn, cwd, olddir, errorcode, pc, required, calc_exc, calls>>
vars == <<sortVars, stateVars, checkVars, runVars>>

None == "None"

(***************************************************************************)
(* Bounds of the model.                                                    *)
(***************************************************************************)
MaxAtoms == 3
MaxSetups == 2
MaxLines == 2      \* lines of an OUTCAR
MaxEdits == 1      \* tags of a preset changed or removed in the files read
MaxLdau == 2       \* entries of an ldaul / ldauj / ldauu array
MaxBlocks == 2     \* datasets of a POTCAR file
MaxExitCode == 2   \* largest exit code of the engine

\* Chemical symbols and POTCAR suffixes of the checked structures.  "C"
\* with suffix "u" and "Cu" with suffix "" format to the same POTCAR name.
Symbols == {"C", "Cu"}
Suffixes == {"", "u"}

\* parameters['pp'], from default_parameters.
pp == "PBE"

(***************************************************************************)
(* Helpers: Python sequence semantics.                                     *)
(***************************************************************************)
\* the sequences over S of length at most n
SeqsUpTo(S, n) == UNION {[1..m -> S] : m \in 0..n}

\* Python dicts are functions; a dict of several value types is a record of
\* dicts, one per type.
EmptyDict == <<>>
Get(d, k) == IF k \in DOMAIN d THEN d[k] ELSE None
Put(d, k, v) == [x \in DOMAIN d \cup {k} |-> IF x = k THEN v ELSE d[x]]
Del(d, k) == [x \in DOMAIN d \ {k} |-> d[x]]
Update(a, b) ==
    [x \in DOMAIN a \cup DOMAIN b |-> IF x \in DOMAIN b THEN b[x] ELSE a[x]]

\* x in s, for a Python list s
InList(x, s) == \E j \in 1..Len(s) : s[j] = x

\* atoms[k] is defined for -n <= k < n
PyIndexValid(k, n) == -n <= k /\ k < n

\* the 0-based position a valid Python index k denotes
PyIndex(k, n) == IF k >= 0 THEN k ELSE n + k

\* atoms[k].symbol
symbol_at(ats, k) == ats[PyIndex(k, Len(ats)) + 1]

\* 'potpaw_{}/{}{}/POTCAR'.format(pp, symbol, suffix)
potcar_path(p, symbol, suffix) ==
    "potpaw_" \o p \o "/" \o symbol \o suffix \o "/POTCAR"

(***************************************************************************)
(* sort_atoms.  The locals are carried in a record                         *)
(*   [ppp, resort_indices, exc]                                            *)
(* where ppp is a sequence of [kind, key, path, count] (kind tells whether *)
(* key is an atom index or a symbol) and exc is None or the exception      *)
(* raised so far.                                                          *)
(***************************************************************************)
IsIndexSetup(x) == x.kind = "index"
IsSymbolSetup(x) == x.kind = "symbol"

\* index_setups that drops the suffix of the override
RECURSIVE index_setups_no_suffix(_, _, _)
index_setups_no_suffix(loc, todo, ats) ==
    IF todo = <<>> \/ loc.exc # None THEN loc
    ELSE LET setup == Head(todo)
         IN IF ~PyIndexValid(setup.key, Len(ats))
            THEN [loc EXCEPT !.exc = "IndexError"]
            ELSE index_setups_no_suffix(
                   [loc EXCEPT
                      !.ppp = @ \o <<[kind |-> "index", key |-> setup.key,
                                      path |-> potcar_path(pp,
                                                  symbol_at(ats, setup.key),
                                                  ""),
                                      count |-> 1]>>,
                      !.resort_indices = @ \o <<setup.key>>],
                   Tail(todo), ats)

\* lines 305-310: the numeric index setups, in the given order
RECURSIVE index_setups(_, _, _)
index_setups(loc, todo, ats) ==
    IF todo = <<>> \/ loc.exc # None THEN loc
    ELSE LET setup == Head(todo)
         IN IF ~PyIndexValid(setup.key, Len(ats))
            THEN [loc EXCEPT !.exc = "IndexError"]
            ELSE index_setups(
                   [loc EXCEPT
                      !.ppp = @ \o <<[kind |-> "index", key |-> setup.key,
                                      path |-> potcar_path(pp,
                                                  symbol_at(ats, setup.key),
                                                  setup.suffix),
                                      count |-> 1]>>,
                      !.resort_indices = @ \o <<setup.key>>],
                   Tail(todo), ats)

\* scan_atoms claiming the atoms that are NOT of the symbol
RECURSIVE scan_atoms_wrong_symbol(_, _, _, _)
scan_atoms_wrong_symbol(acc, i, symbol, ats) ==
    IF i >= Len(ats) THEN acc
    ELSE IF ats[i + 1] # symbol /\ ~InList(i, acc.resort_indices)
         THEN scan_atoms_wrong_symbol(
                 [resort_indices |-> acc.resort_indices \o <<i>>,
                  count |-> acc.count + 1],
                 i + 1, symbol, ats)
         ELSE scan_atoms_wrong_symbol(acc, i + 1, symbol, ats)

\* lines 316-319 and 334-337: scan the atoms in order from 0-based index i,
\* claiming those of the symbol that are not in resort_indices.
\* Returns [resort_indices, count].
RECURSIVE scan_atoms(_, _, _, _)
scan_atoms(acc, i, symbol, ats) ==
    IF i >= Len(ats) THEN acc
    ELSE IF ats[i + 1] = symbol /\ ~InList(i, acc.resort_indices)
         THEN scan_atoms([resort_indices |-> acc.resort_indices \o <<i>>,
                          count |-> acc.count + 1],
                         i + 1, symbol, ats)
         ELSE scan_atoms(acc, i + 1, symbol, ats)

\* symbol_setups that emits a group only if it claimed an atom
RECURSIVE symbol_setups_skip_empty(_, _, _)
symbol_setups_skip_empty(loc, todo, ats) ==
    IF todo = <<>> \/ loc.exc # None THEN loc
    ELSE LET setup == Head(todo)
             sc == scan_atoms([resort_indices |-> loc.resort_indices,
                               count |-> 0], 0, setup.key, ats)
         IN symbol_setups_skip_empty(
              [loc EXCEPT
                 !.ppp = IF sc.count > 0
                         THEN @ \o <<[kind |-> "symbol", key |-> setup.key,
                                      path |-> potcar_path(pp, setup.key,
                                                           setup.suffix),
                                      count |-> sc.count]>>
                         ELSE @,
                 !.resort_indices = sc.resort_indices],
              Tail(todo), ats)

\* lines 313-323: the symbol setups, in the given order
RECURSIVE symbol_setups(_, _, _)
symbol_setups(loc, todo, ats) ==
    IF todo = <<>> \/ loc.exc # None THEN loc
    ELSE LET setup == Head(todo)
             sc == scan_atoms([resort_indices |-> loc.resort_indices,
                               count |-> 0], 0, setup.key, ats)
         IN symbol_setups(
              [loc EXCEPT
                 !.ppp = @ \o <<[kind |-> "symbol", key |-> setup.key,
                                 path |-> potcar_path(pp, setup.key,
                                                      setup.suffix),
                                 count |-> sc.count]>>,
                 !.resort_indices = sc.resort_indices],
              Tail(todo), ats)

\* atom.symbol in [x[0] for x in ppp]  (an int key never equals a symbol)
InPppKeys(symbol, ppp) ==
    \E j \in 1..Len(ppp) : ppp[j].kind = "symbol" /\ ppp[j].key = symbol

\* lines 326-330: the chemical symbols that remain, in first-appearance order
RECURSIVE remaining_symbols(_, _, _, _)
remaining_symbols(symbols, i, ats, ppp) ==
    IF i >= Len(ats) THEN symbols
    ELSE IF ~InList(ats[i + 1], symbols) /\ ~InPppKeys(ats[i + 1], ppp)
         THEN remaining_symbols(symbols \o <<ats[i + 1]>>, i + 1, ats, ppp)
         ELSE remaining_symbols(symbols, i + 1, ats, ppp)

\* lines 332-341: default potentials; a group is emitted only if count > 0
RECURSIVE default_setups(_, _, _)
default_setups(loc, symbols, ats) ==
    IF symbols = <<>> \/ loc.exc # None THEN loc
    ELSE LET symbol == Head(symbols)
             sc == scan_atoms([resort_indices |-> loc.resort_indices,
                               count |-> 0], 0, symbol, ats)
         IN default_setups(
              [loc EXCEPT
                 !.ppp = IF sc.count > 0
                         THEN @ \o <<[kind |-> "symbol", key |-> symbol,
                                      path |-> potcar_path(pp, symbol, ""),
                                      count |-> sc.count]>>
                         ELSE @,
                 !.resort_indices = sc.resort_indices],
              Tail(symbols), ats)

RECURSIVE SumCounts(_)
SumCounts(ppp) ==
    IF ppp = <<>> THEN 0 ELSE Head(ppp).count + SumCounts(Tail(ppp))

\* line 343: assert len(resort_indices) == len(atoms), 'Sorting error...'
SortingAssertionDropped(resort_indices, ats) == TRUE
SortingAssertion(resort_indices, ats) == Len(resort_indices) = Len(ats)

\* line 346: assert sum([x[2] for x in ppp]) == len(atoms)
CountAssertion(ppp, ats) == SumCounts(ppp) = Len(ats)

\* lines 299-346: the locals of sort_atoms when it leaves its last loop,
\* and the exception it ends with (None: it returns)
sort_locals(ats, sts) ==
    LET l0 == [ppp |-> <<>>, resort_indices |-> <<>>, exc |-> None]
        l1 == index_setups(l0, SelectSeq(sts, IsIndexSetup), ats)
        l2 == symbol_setups(l1, SelectSeq(sts, IsSymbolSetup), ats)
        l3 == IF l2.exc # None THEN l2
              ELSE default_setups(l2,
                      remaining_symbols(<<>>, 0, ats, l2.ppp), ats)
    IN IF l3.exc # None THEN l3
       ELSE IF ~SortingAssertion(l3.resort_indices, ats)
            THEN [l3 EXCEPT !.exc = "AssertionError: Sorting error"]
       ELSE IF ~CountAssertion(l3.ppp, ats)
            THEN [l3 EXCEPT !.exc = "AssertionError"]
       ELSE l3

(***************************************************************************)
(* get_state.                                                              *)
(***************************************************************************)
\* lines 128-135: the enumerated states
Vasp_EMPTY == 0
Vasp_NEW == 1
Vasp_QUEUED == 2
Vasp_FINISHED == 3
Vasp_NOTFINISHED == 4
Vasp_EMPTYCONTCAR == 5
Vasp_NEB == 10
Vasp_UNKNOWN == 100

\* value of state while get_state has returned nothing
NoState == -1

\* The lines an OUTCAR is made of; the first holds the termination marker.
MarkerLine == " Voluntary context switches: 42"
OutcarLines == {MarkerLine, " energy without entropy = -1.0"}

\* 'Voluntary context switches:' in line
HasMarker(line) == line = MarkerLine

\* in_queue() is asked at most four times by one get_state call
QueueAnswers == [1..4 -> BOOLEAN]

\* line 597 with the mistake of leaving KPOINTS out
base_input_no_kpoints(d) == <<d.INCAR, d.POSCAR, d.POTCAR>>

\* lines 597-598: base_input
base_input(d) == <<d.INCAR, d.POSCAR, d.POTCAR, d.KPOINTS>>

\* lines 601-604: the NEB test
is_neb(d) == d.INCAR /\ d.POTCAR /\ d.KPOINTS /\ ~d.POSCAR /\ d.dir00

\* lines 613-615: the NEW test
is_new(d, jid) ==
    /\ \A j \in 1..Len(base_input(d)) : base_input(d)[j]
    /\ jid # None
    /\ ~d.OUTCAR

Ret(v, n) == [exc |-> None, value |-> v, calls |-> n]
Raise(e, n) == [exc |-> e, value |-> NoState, calls |-> n]

\* lines 641-647, reached after three in_queue() calls
get_state_contcar(d, q) ==
    IF ~q[4] /\ d.CONTCAR /\ d.contcar_text = ""
    THEN Ret(Vasp_EMPTYCONTCAR, 4)
    ELSE Ret(Vasp_UNKNOWN, 4)

\* lines 631-636 without the else of lines 637-638
get_state_not_finished_no_else(d, q) ==
    IF ~q[3]
    THEN IF d.OUTCAR
         THEN IF d.outcar_lines = <<>>
              THEN Raise("IndexError", 3)
              ELSE IF ~HasMarker(d.outcar_lines[Len(d.outcar_lines)])
                   THEN Ret(Vasp_NOTFINISHED, 3)
                   ELSE get_state_contcar(d, q)
         ELSE get_state_contcar(d, q)
    ELSE get_state_contcar(d, q)

\* lines 631-638, reached after two in_queue() calls
get_state_not_finished(d, q) ==
    IF ~q[3]
    THEN IF d.OUTCAR
         THEN IF d.outcar_lines = <<>>
              THEN Raise("IndexError", 3)
              ELSE IF ~HasMarker(d.outcar_lines[Len(d.outcar_lines)])
                   THEN Ret(Vasp_NOTFINISHED, 3)
                   ELSE get_state_contcar(d, q)
         ELSE Ret(Vasp_NOTFINISHED, 3)
    ELSE get_state_contcar(d, q)

\* lines 623-628, reached after one in_queue() call
get_state_finished(d, q) ==
    IF ~q[2] /\ d.OUTCAR
    THEN IF d.outcar_lines = <<>>
         THEN Raise("IndexError", 2)
         ELSE IF HasMarker(d.outcar_lines[Len(d.outcar_lines)])
              THEN Ret(Vasp_FINISHED, 2)
              ELSE get_state_not_finished(d, q)
    ELSE get_state_not_finished(d, q)

\* lines 590-647: get_state on directory d with jobid jid, in_queue()
\* answering q[1], q[2], ... to its successive calls.  Returns the state or
\* the exception, and the number of in_queue() calls made.
get_state(d, jid, q) ==
    IF is_neb(d) THEN Ret(Vasp_NEB, 0)
    ELSE IF \E j \in 1..Len(base_input(d)) : ~base_input(d)[j]
         THEN Ret(Vasp_EMPTY, 0)
    ELSE IF is_new(d, jid) THEN Ret(Vasp_NEW, 0)
    ELSE IF q[1] THEN Ret(Vasp_QUEUED, 1)
    ELSE get_state_finished(d, q)

(***************************************************************************)
(* clone.  Its outcome is a record [exc, copied, branch, unlinked]: the    *)
(* exception raised (None: none), whether the directory was copied, the    *)
(* cleanup branch entered and the files of the copy that were deleted.     *)
(***************************************************************************)
NotCloned ==
    [exc |-> "not called", copied |-> FALSE, branch |-> "none",
     unlinked |-> {}]

\* os.unlink of the files of todo in turn; existing holds the files of the
\* copy.  Unlinking a file that is not there raises OSError.
RECURSIVE unlink_all(_, _, _)
unlink_all(todo, existing, done) ==
    IF todo = <<>> THEN [exc |-> None, unlinked |-> done]
    ELSE IF Head(todo) \notin existing
         THEN [exc |-> "OSError", unlinked |-> done]
         ELSE unlink_all(Tail(todo), existing, done \cup {Head(todo)})

\* lines 564-585: clone(newdir), given the outcome st of its get_state
\* call, whether newdir is a directory already and whether vasprun.xml is
\* in the directory
clone(st, d, newdir_exists, xml) ==
    LET existing == (IF d.OUTCAR THEN {"OUTCAR"} ELSE {})
                    \cup (IF xml THEN {"vasprun.xml"} ELSE {})
                    \cup (IF d.CONTCAR THEN {"CONTCAR"} ELSE {})
    IN IF st.exc # None
       THEN [exc |-> st.exc, copied |-> FALSE, branch |-> "none",
             unlinked |-> {}]
       ELSE IF newdir_exists
            THEN [exc |-> None, copied |-> FALSE, branch |-> "none",
                  unlinked |-> {}]
       ELSE IF st.value \in {Vasp_QUEUED, Vasp_NOTFINISHED}
            THEN LET u == unlink_all(<<"OUTCAR", "vasprun.xml">>, existing, {})
                 IN [exc |-> u.exc, copied |-> TRUE, branch |-> "unfinished",
                     unlinked |-> u.unlinked]
       ELSE IF st.value \in {Vasp_EMPTYCONTCAR}
            THEN LET u == unlink_all(<<"OUTCAR", "vasprun.xml", "CONTCAR">>,
                                     existing, {})
                 IN [exc |-> u.exc, copied |-> TRUE,
                     branch |-> "emptycontcar", unlinked |-> u.unlinked]
       ELSE [exc |-> None, copied |-> TRUE, branch |-> "none",
             unlinked |-> {}]

(***************************************************************************)
(* check_state.                                                            *)
(***************************************************************************)
\* lines 70-104: xc_defaults (floats and booleans written as strings)
xc_defaults ==
    [x \in {"lda", "pbe", "revpbe", "rpbe", "am05", "pbesol", "tpss",
            "revtpss", "m06l", "optpbe-vdw", "optb88-vdw", "optb86b-vdw",
            "vdw-df2", "beef-vdw", "pbe0", "hse03", "hse06", "b3lyp", "hf"}
     |-> CASE x = "lda" -> [pp |-> "LDA"]
           [] x = "pbe" -> [pp |-> "PBE"]
           [] x = "revpbe" -> [pp |-> "LDA", gga |-> "RE"]
           [] x = "rpbe" -> [pp |-> "LDA", gga |-> "RP"]
           [] x = "am05" -> [pp |-> "LDA", gga |-> "AM"]
           [] x = "pbesol" -> [pp |-> "LDA", gga |-> "PS"]
           [] x = "tpss" -> [pp |-> "PBE", metagga |-> "TPSS"]
           [] x = "revtpss" -> [pp |-> "PBE", metagga |-> "RTPSS"]
           [] x = "m06l" -> [pp |-> "PBE", metagga |-> "M06L"]
           [] x = "optpbe-vdw" -> [pp |-> "LDA", gga |-> "OR",
                                   luse_vdw |-> "True", aggac |-> "0.0"]
           [] x = "optb88-vdw" -> [pp |-> "LDA", gga |-> "BO",
                                   luse_vdw |-> "True", aggac |-> "0.0",
                                   param1 |-> "1.1/6.0", param2 |-> "0.22"]
           [] x = "optb86b-vdw" -> [pp |-> "LDA", gga |-> "MK",
                                    luse_vdw |-> "True", aggac |-> "0.0",
                                    param1 |-> "0.1234", param2 |-> "1.0"]
           [] x = "vdw-df2" -> [pp |-> "LDA", gga |-> "ML",
                                luse_vdw |-> "True", aggac |-> "0.0",
                                zab_vdw |-> "-1.8867"]
           [] x = "beef-vdw" -> [pp |-> "PBE", gga |-> "BF",
                                 luse_vdw |-> "True", zab_vdw |-> "-1.8867",
                                 lbeefens |-> "True"]
           [] x = "pbe0" -> [pp |-> "LDA", gga |-> "PE", lhfcalc |-> "True"]
           [] x = "hse03" -> [pp |-> "LDA", gga |-> "PE", lhfcalc |-> "True",
                              hfscreen |-> "0.3"]
           [] x = "hse06" -> [pp |-> "LDA", gga |-> "PE", lhfcalc |-> "True",
                              hfscreen |-> "0.2"]
           [] x = "b3lyp" -> [pp |-> "LDA", gga |-> "B3", lhfcalc |-> "True",
                              aexx |-> "0.2", aggax |-> "0.72",
                              aggac |-> "0.81", aldac |-> "0.19"]
           [] x = "hf" -> [pp |-> "PBE", lhfcalc |-> "True", aexx |-> "1.0",
                           aldac |-> "0.0", aggac |-> "0.0"]]

\* line 423: the sort key, len(Vasp.xc_defaults[k])
xc_len(ex) == Cardinality(DOMAIN xc_defaults[ex])

\* the order of the sort without reverse=True
xc_before_ascending(a, b) == xc_len(a) < xc_len(b)

\* lines 422-424: a comes before b in xc_keys whenever it has more tags;
\* the order of presets with equally many tags is that of the dict's keys,
\* which the code does not fix
xc_before(a, b) == xc_len(a) > xc_len(b)

\* lines 427-429: pd == Vasp.xc_defaults[ex]
xc_match(fp, ex) ==
    \A k \in DOMAIN xc_defaults[ex] : Get(fp, k) = xc_defaults[ex][k]

\* lines 426-431: the values file_params (its scalar tags) may have after
\* the loop: the first matching preset of xc_keys is recorded under 'xc'
xc_collapse(fp) ==
    LET matching == {ex \in DOMAIN xc_defaults : xc_match(fp, ex)}
        first == {ex \in matching :
                    ~\E o \in matching : xc_before(o, ex)}
    IN IF matching = {} THEN {fp}
       ELSE {Put(fp, "xc", ex) : ex \in first}

\* The lines of a POTCAR file: the title line of a dataset names its symbol
\* as the second word, and "End of Dataset" closes the dataset.
TitleLine(symbol) == [text |-> "title", word2 |-> symbol]
DataLine == [text |-> "data", word2 |-> "10.0"]
EndLine == [text |-> "End of Dataset", word2 |-> "of"]

RECURSIVE PotcarFile(_)
PotcarFile(symbols) ==
    IF symbols = <<>> THEN <<>>
    ELSE <<TitleLine(Head(symbols)), DataLine, EndLine>>
         \o PotcarFile(Tail(symbols))

\* lines 444-446: the symbols after each 'End of Dataset' but the last line
RECURSIVE potcar_symbols(_, _, _)
potcar_symbols(symbols, i, lines) ==
    IF i >= Len(lines) THEN symbols
    ELSE IF lines[i + 1].text = "End of Dataset" /\ i # Len(lines) - 1
         THEN potcar_symbols(symbols \o <<lines[i + 2].word2>>, i + 1, lines)
         ELSE potcar_symbols(symbols, i + 1, lines)

Min(a, b) == IF a <= b THEN a ELSE b

\* line 449: zip(symbols, ldaul, ldauj, ldauu) stops at the shortest
zip(symbols, ldaul, ldauj, ldauu) ==
    [n \in 1..Min(Min(Len(symbols), Len(ldaul)),
                  Min(Len(ldauj), Len(ldauu))) |->
       [sym |-> symbols[n], l |-> ldaul[n], j |-> ldauj[n], u |-> ldauu[n]]]

\* lines 448-450: ldau_luj[sym] = {'L': l, 'U': u, 'J': j}, in zip order
RECURSIVE ldau_luj_dict(_, _)
ldau_luj_dict(d, zipped) ==
    IF zipped = <<>> THEN d
    ELSE ldau_luj_dict(Put(d, Head(zipped).sym,
                           [L |-> Head(zipped).l, U |-> Head(zipped).u,
                            J |-> Head(zipped).j]),
                       Tail(zipped))

\* lines 434-452: file_params with ldau_luj reconstructed, or the exception
reconstruct_ldau_luj(fp, lines) ==
    IF "ldauu" \notin DOMAIN fp.arrays THEN [exc |-> None, fp |-> fp]
    ELSE IF "ldaul" \notin DOMAIN fp.arrays
         THEN [exc |-> "KeyError: ldaul", fp |-> fp]
    ELSE IF "ldauj" \notin DOMAIN fp.arrays
         THEN [exc |-> "KeyError: ldauj", fp |-> fp]
    ELSE IF lines = <<>> THEN [exc |-> "IndexError", fp |-> fp]
    ELSE LET symbols == potcar_symbols(<<lines[1].word2>>, 0, lines)
             ldau_luj == ldau_luj_dict(EmptyDict,
                            zip(symbols, fp.arrays["ldaul"],
                                fp.arrays["ldauj"], fp.arrays["ldauu"]))
         IN [exc |-> None,
             fp |-> [fp EXCEPT !.dicts = Put(@, "ldau_luj", ldau_luj)]]

\* lines 417-420: the three files read, later ones overriding earlier ones
\* (scalar tags, the array tags of INCAR, and no dict yet)
read_files(f) ==
    [tags |-> Update(Update(f.incar, f.potcar), f.kpoints),
     arrays |-> f.incar_arrays,
     dicts |-> EmptyDict]

\* check_state keeping 'pbc' among the changes
keep_pbc(changes) == changes

\* lines 409-410: boundary conditions are ignored
ignore_pbc(changes) == changes \ {"pbc"}

NoParams == [tags |-> EmptyDict, arrays |-> EmptyDict, dicts |-> EmptyDict]

\* lines 402-463: check_state.  The set of its possible outcomes
\* [exc, system_changes, file_params], given what get_state returns (st, a
\* result of get_state) and what FileIOCalculator.check_state reports.
check_state(st, changes, params, f) ==
    LET sc == ignore_pbc(changes)
    IN IF st.exc # None
       THEN {[exc |-> st.exc, system_changes |-> {},
              file_params |-> NoParams]}
       ELSE IF st.value = Vasp_EMPTY
       THEN {[exc |-> None, system_changes |-> sc, file_params |-> NoParams]}
       ELSE {LET r == reconstruct_ldau_luj(
                         [read_files(f) EXCEPT !.tags = tags], f.potcar_lines)
             IN IF r.exc # None
                THEN [exc |-> r.exc, system_changes |-> {},
                      file_params |-> r.fp]
                ELSE [exc |-> None,
                      system_changes |->
                         IF params # r.fp
                         THEN sc \cup {"params_on_file"}
                         ELSE sc,
                      file_params |-> r.fp]
             : tags \in xc_collapse(read_files(f).tags)}

(***************************************************************************)
(* calculation_required and calculate.                                     *)
(***************************************************************************)
\* line 59: name
name == "VASP"

\* lines 499-503: some requested property is not in self.results
property_missing(props, res) ==
    \E n \in 1..Len(props) : props[n] \notin res

\* lines 488-510: calculation_required, given an outcome cs of check_state.
\* Returns [exc, value]; value is "True", "False" or None (no return
\* statement reached).
calculation_required(cs, props, res, d) ==
    IF cs.exc # None THEN [exc |-> cs.exc, value |-> None]
    ELSE IF cs.system_changes # {} THEN [exc |-> None, value |-> "True"]
    ELSE IF property_missing(props, res)
         THEN [exc |-> None, value |-> "True"]
    ELSE IF d.OUTCAR
         THEN IF d.outcar_lines = <<>>
              THEN [exc |-> "IndexError", value |-> None]
              ELSE IF HasMarker(d.outcar_lines[Len(d.outcar_lines)])
                   THEN [exc |-> None, value |-> "False"]
                   ELSE [exc |-> None, value |-> None]
    ELSE [exc |-> None, value |-> None]

\* lines 523-526: the error for a missing command
NoCommandError ==
    [type |-> "RuntimeError", text |-> "Please set $ASE_VASP_COMMAND",
     code |-> 0]

\* lines 538-540: '{} returned an error: {}'.format(self.name, errorcode)
EngineError(code) ==
    [type |-> "RuntimeError", text |-> name \o " returned an error: ",
     code |-> code]

\* an exception other than the two RuntimeErrors of calculate
OtherError(type) == [type |-> type, text |-> "", code |-> 0]

NoError == OtherError(None)

\* an errorcode test that lets every exit code pass
errorcode_truthy_never(code) == FALSE

\* line 538: if errorcode:
errorcode_truthy(code) == code # 0

\* a finally clause that leaves the process where it is
finally_chdir_missing(old, current) == current

\* lines 535-536: finally: os.chdir(olddir); the working directory after it
finally_chdir(old, current) == old

\* write_input: INCAR, POSCAR, KPOINTS and POTCAR are written
write_input(d) ==
    [d EXCEPT !.INCAR = TRUE, !.POSCAR = TRUE, !.KPOINTS = TRUE,
              !.POTCAR = TRUE]

(***************************************************************************)
(* Inputs, actions and specifications.                                     *)
(***************************************************************************)
Structures == SeqsUpTo(Symbols, MaxAtoms)

\* index keys reach one past each end of the structure
SetupsFor(ats) ==
    SeqsUpTo([kind : {"index"}, key : (-(Len(ats) + 1))..Len(ats),
              suffix : Suffixes]
             \cup [kind : {"symbol"}, key : Symbols, suffix : Suffixes],
             MaxSetups)

\* The calculation directories.
Directories ==
    {d \in [INCAR : BOOLEAN, POSCAR : BOOLEAN, POTCAR : BOOLEAN,
            KPOINTS : BOOLEAN, dir00 : BOOLEAN,
            OUTCAR : BOOLEAN, outcar_lines : SeqsUpTo(OutcarLines, MaxLines),
            CONTCAR : BOOLEAN, contcar_text : {"", "Cu  1.0"}] :
       /\ ~d.OUTCAR => d.outcar_lines = <<>>
       /\ ~d.CONTCAR => d.contcar_text = ""}

\* a directory just made by set_label
NewDirectory ==
    [INCAR |-> FALSE, POSCAR |-> FALSE, POTCAR |-> FALSE, KPOINTS |-> FALSE,
     dir00 |-> FALSE, OUTCAR |-> FALSE, outcar_lines |-> <<>>,
     CONTCAR |-> FALSE, contcar_text |-> ""]

\* the directory of a calculation that ran to its end
FinishedDirectory ==
    [INCAR |-> TRUE, POSCAR |-> TRUE, POTCAR |-> TRUE, KPOINTS |-> TRUE,
     dir00 |-> FALSE, OUTCAR |-> TRUE, outcar_lines |-> <<MarkerLine>>,
     CONTCAR |-> TRUE, contcar_text |-> "Cu  1.0"]

JobIds == {None, "1234.gilgamesh"}

\* what FileIOCalculator.check_state may report
BaseChanges == SUBSET {"positions", "pbc"}

\* Parameters of a PBE calculation, and files that were written for them.
PbeParameters ==
    [tags |-> [pp |-> "PBE", xc |-> "pbe", kpts |-> "1 1 1",
               encut |-> "450"],
     arrays |-> EmptyDict, dicts |-> EmptyDict]

PbeOnFile ==
    [incar |-> [encut |-> "450"], potcar |-> [pp |-> "PBE"],
     kpoints |-> [kpts |-> "1 1 1"], incar_arrays |-> EmptyDict,
     potcar_lines |-> PotcarFile(<<"Cu">>)]

\* the same files with another cutoff in INCAR
OtherOnFile == [PbeOnFile EXCEPT !.incar = [encut |-> "300"]]

\* Files whose xc tags are those of a preset, or of two presets that agree
\* on their common tags, with at most MaxEdits tags removed or set to a
\* value no preset has.
XcTags == UNION {DOMAIN xc_defaults[ex] : ex \in DOMAIN xc_defaults}

Compatible(a, b) == \A k \in DOMAIN a \cap DOMAIN b : a[k] = b[k]

PresetTags ==
    {EmptyDict} \cup
    UNION {{Update(xc_defaults[a], xc_defaults[b]) :
              b \in {e \in DOMAIN xc_defaults :
                       Compatible(xc_defaults[a], xc_defaults[e])}} :
           a \in DOMAIN xc_defaults}

RECURSIVE Edited(_, _)
Edited(S, n) ==
    IF n = 0 THEN S
    ELSE Edited(S \cup {Del(t, k) : t \in S, k \in XcTags}
                  \cup {Put(t, k, "other") : t \in S, k \in XcTags},
                n - 1)

Restrict(d, K) == [x \in DOMAIN d \cap K |-> d[x]]

XcOnFile ==
    {[incar |-> Restrict(t, XcTags \ {"pp"}),
      potcar |-> Restrict(t, {"pp"}),
      kpoints |-> [kpts |-> "1 1 1"],
      incar_arrays |-> EmptyDict,
      potcar_lines |-> PotcarFile(<<"Cu">>)] : t \in Edited(PresetTags, MaxEdits)}

\* Files with some of the ldaul, ldauj, ldauu arrays in INCAR.
LdauArrays ==
    UNION {[K -> SeqsUpTo({0, 2}, MaxLdau)] : K \in SUBSET {"ldaul", "ldauj", "ldauu"}}

LdauOnFile ==
    {[PbeOnFile EXCEPT !.incar_arrays = a, !.potcar_lines = PotcarFile(syms)] :
       a \in LdauArrays, syms \in SeqsUpTo(Symbols, MaxBlocks)}

SortIdle ==
    /\ atoms = <<>> /\ setups = <<>>
    /\ resort = None /\ ppp_list = None /\ sort_exc = "not called"

StateIdle ==
    /\ files = NewDirectory /\ jobid = None
    /\ queue = <<>> /\ state = NoState /\ state_exc = "not called"
    /\ cloned = NotCloned

CheckNotCalled ==
    /\ file_params = NoParams /\ system_changes = {}
    /\ check_exc = "not called"

CheckIdle ==
    /\ parameters = PbeParameters /\ on_file = PbeOnFile /\ base_changes = {}
    /\ CheckNotCalled

\* self.directory, and where the process is otherwise
Directory == "/home/user/calc"
Home == "/home/user"

NoCode == -1

RunNotCalled ==
    /\ cwd0 = cwd /\ olddir = None /\ errorcode = NoCode /\ pc = "start"
    /\ required = "not called" /\ calc_exc = NoError /\ calls = <<>>

RunIdle ==
    /\ results = {} /\ properties = <<"energy">> /\ command = None
    /\ cwd = Home
    /\ RunNotCalled

SortInit ==
    /\ atoms \in Structures
    /\ setups \in SetupsFor(atoms)
    /\ resort = None
    /\ ppp_list = None
    /\ sort_exc = "not called"
    /\ StateIdle
    /\ CheckIdle
    /\ RunIdle

\* lines 278-355: sort_atoms(atoms)
SortAtoms ==
    /\ sort_exc = "not called"
    /\ LET loc == sort_locals(atoms, setups)
       IN /\ sort_exc' = IF loc.exc = None THEN "returned" ELSE loc.exc
          /\ resort' = IF loc.exc = None THEN loc.resort_indices ELSE None
          /\ ppp_list' = IF loc.exc = None THEN loc.ppp ELSE None
    /\ UNCHANGED <<atoms, setups, stateVars, checkVars, runVars>>

SortNext == SortAtoms

SpecSort == SortInit /\ [][SortNext]_vars

StateInit ==
    /\ SortIdle
    /\ CheckIdle
    /\ RunIdle
    /\ files \in Directories
    /\ jobid \in JobIds
    /\ queue = <<>> /\ state = NoState /\ state_exc = "not called"
    /\ cloned = NotCloned

\* lines 590-647: one get_state call; the queue may change while it runs
GetState ==
    /\ state_exc = "not called"
    /\ \E q \in QueueAnswers :
         LET r == get_state(files, jobid, q)
         IN /\ state' = r.value
            /\ state_exc' = r.exc
            /\ queue' = SubSeq(q, 1, r.calls)
    /\ UNCHANGED <<files, jobid, cloned, sortVars, checkVars, runVars>>

\* lines 564-585: clone(newdir), with the get_state call it starts with
Clone ==
    /\ state_exc = "not called"
    /\ \E q \in QueueAnswers, newdir_exists \in BOOLEAN, xml \in BOOLEAN :
         LET r == get_state(files, jobid, q)
         IN /\ state' = r.value
            /\ state_exc' = r.exc
            /\ queue' = SubSeq(q, 1, r.calls)
            /\ cloned' = clone(r, files, newdir_exists, xml)
    /\ UNCHANGED <<files, jobid, sortVars, checkVars, runVars>>

StateNext == GetState \/ Clone

SpecState == StateInit /\ [][StateNext]_vars

CheckInit ==
    /\ SortIdle
    /\ RunIdle
    /\ jobid = None
    /\ queue = <<>> /\ state = NoState /\ state_exc = "not called"
    /\ cloned = NotCloned
    /\ parameters = PbeParameters
    /\ \/ /\ files = FinishedDirectory
          /\ base_changes = {}
          /\ on_file \in XcOnFile \cup LdauOnFile
       \/ /\ files \in {NewDirectory, FinishedDirectory}
          /\ base_changes \in BaseChanges
          /\ on_file \in {PbeOnFile, OtherOnFile}
    /\ CheckNotCalled

\* lines 402-463: check_state(atoms), with the get_state call it makes
CheckState ==
    /\ check_exc = "not called"
    /\ \E q \in QueueAnswers :
         LET st == get_state(files, jobid, q)
         IN /\ state' = st.value
            /\ state_exc' = st.exc
            /\ queue' = SubSeq(q, 1, st.calls)
            /\ \E cs \in check_state(st, base_changes, parameters, on_file) :
                 /\ check_exc' = cs.exc
                 /\ system_changes' = cs.system_changes
                 /\ file_params' = cs.file_params
    /\ UNCHANGED <<files, jobid, cloned, sortVars, checkIn, runVars>>

CheckNext == CheckState

SpecCheck == CheckInit /\ [][CheckNext]_vars

\* The directories calculate is run in: CONTCAR is read by get_state only,
\* and INCAR and POTCAR are there or missing together.
RunDirectories == {d \in Directories : ~d.CONTCAR /\ d.INCAR = d.POTCAR}

\* what the engine may leave in OUTCAR: nothing, or a last line with or
\* without the marker
EngineOutcars == SeqsUpTo(OutcarLines, 1)

ExitCodes == 0..MaxExitCode

RunInit ==
    /\ SortIdle
    /\ files \in RunDirectories
    /\ jobid \in JobIds
    /\ queue = <<>> /\ state = NoState /\ state_exc = "not called"
    /\ cloned = NotCloned
    /\ parameters = PbeParameters
    /\ on_file \in {PbeOnFile, OtherOnFile}
    /\ base_changes \in BaseChanges
    /\ CheckNotCalled
    /\ results \in {{}, {"energy"}, {"energy", "forces"}}
    /\ properties \in {<<"energy">>, <<"energy", "forces">>}
    /\ command \in {None, "vasp"}
    /\ cwd \in {Home, Directory}
    /\ RunNotCalled

\* line 515: calculate asks calculation_required, which runs check_state,
\* which runs get_state
Calculate_required ==
    /\ pc = "start"
    /\ \E q \in QueueAnswers :
         LET st == get_state(files, jobid, q)
         IN /\ state' = st.value
            /\ state_exc' = st.exc
            /\ queue' = SubSeq(q, 1, st.calls)
            /\ \E cs \in check_state(st, base_changes, parameters, on_file) :
                 LET r == calculation_required(cs, properties, results, files)
                 IN /\ check_exc' = cs.exc
                    /\ system_changes' = cs.system_changes
                    /\ file_params' = cs.file_params
                    /\ required' = IF r.exc # None THEN "raised" ELSE r.value
                    /\ calc_exc' = IF r.exc # None THEN OtherError(r.exc)
                                   ELSE calc_exc
                    /\ pc' = IF r.exc # None THEN "raised"
                             ELSE IF r.value = "True" THEN "write_input"
                             ELSE "read_results"
    /\ UNCHANGED <<files, jobid, cloned, sortVars, checkIn, runIn, cwd, olddir,
                   errorcode, calls>>

\* lines 519-528: write_input, the test of self.command, os.getcwd()
Calculate_write_input ==
    /\ pc = "write_input"
    /\ files' = write_input(files)
    /\ calls' = Append(calls, "write_input")
    /\ IF command = None
       THEN /\ pc' = "raised" /\ calc_exc' = NoCommandError
            /\ UNCHANGED olddir
       ELSE /\ pc' = "chdir" /\ olddir' = cwd
            /\ UNCHANGED calc_exc
    /\ UNCHANGED <<jobid, queue, state, state_exc, cloned, sortVars, checkVars,
                   runIn,
                   cwd, errorcode, required>>

\* lines 529-530 (and 535-536 if it fails): os.chdir(self.directory)
Calculate_chdir ==
    /\ pc = "chdir"
    /\ \/ /\ cwd' = Directory
          /\ pc' = "engine"
          /\ UNCHANGED calc_exc
       \/ /\ cwd' = finally_chdir(olddir, cwd)
          /\ pc' = "raised"
          /\ calc_exc' = OtherError("OSError")
    /\ UNCHANGED <<stateVars, sortVars, checkVars, runIn, olddir, errorcode,
                   required, calls>>

\* lines 531-533: subprocess.call(self.command, ...): the engine runs and
\* exits, or cannot be started
Calculate_engine ==
    /\ pc = "engine"
    /\ pc' = "finally"
    /\ \/ /\ errorcode' \in ExitCodes
          /\ \E out \in EngineOutcars :
               files' = [files EXCEPT !.OUTCAR = TRUE, !.outcar_lines = out]
          /\ calls' = Append(calls, "engine")
          /\ UNCHANGED calc_exc
       \/ /\ calc_exc' = OtherError("OSError")
          /\ UNCHANGED <<errorcode, files, calls>>
    /\ UNCHANGED <<jobid, queue, state, state_exc, cloned, sortVars, checkVars,
                   runIn,
                   cwd, olddir, required>>

\* lines 535-540: the finally clause, then the test of errorcode
Calculate_finally ==
    /\ pc = "finally"
    /\ cwd' = finally_chdir(olddir, cwd)
    /\ IF calc_exc # NoError
       THEN pc' = "raised" /\ UNCHANGED calc_exc
       ELSE IF errorcode_truthy(errorcode)
            THEN pc' = "raised" /\ calc_exc' = EngineError(errorcode)
            ELSE pc' = "read_results" /\ UNCHANGED calc_exc
    /\ UNCHANGED <<stateVars, sortVars, checkVars, runIn, olddir, errorcode,
                   required, calls>>

\* line 543: read_results sets self.results, or fails
Calculate_read_results ==
    /\ pc = "read_results"
    /\ calls' = Append(calls, "read_results")
    /\ \/ /\ results' = results \cup {"energy", "forces"}
          /\ pc' = "done"
          /\ UNCHANGED calc_exc
       \/ /\ pc' = "raised"
          /\ calc_exc' = OtherError("IOError")
          /\ UNCHANGED results
    /\ UNCHANGED <<stateVars, sortVars, checkVars, properties, command, cwd0,
                   cwd, olddir, errorcode, required>>

RunNext ==
    \/ Calculate_required
    \/ Calculate_write_input
    \/ Calculate_chdir
    \/ Calculate_engine
    \/ Calculate_finally
    \/ Calculate_read_results

SpecRun == RunInit /\ [][RunNext]_vars

(***************************************************************************)
(* Properties of check_state.                                              *)
(***************************************************************************)
CheckCalled == check_exc # "not called"

\* check_state went past the EMPTY test and read the files
FilesRead == CheckCalled /\ state_exc = None /\ state # Vasp_EMPTY

\* the scalar tags read from the files
FileTags == read_files(on_file).tags

\* every tag of the preset is in the files, with the preset's value
PresetFits(ex) ==
    \A k \in DOMAIN xc_defaults[ex] :
      k \in DOMAIN FileTags /\ FileTags[k] = xc_defaults[ex][k]

\* C9: the preset written to file_params['xc'] fits the files and no
\* fitting preset defines more tags; when none fits nothing is set.
C9_MostSpecificPreset ==
    FilesRead =>
      LET fits == {ex \in DOMAIN xc_defaults : PresetFits(ex)}
      IN IF fits = {}
         THEN file_params.tags = FileTags
         ELSE /\ "xc" \in DOMAIN file_params.tags
              /\ file_params.tags["xc"] \in fits
              /\ \A o \in fits :
                   Cardinality(DOMAIN xc_defaults[o])
                     <= Cardinality(DOMAIN xc_defaults[file_params.tags["xc"]])
              /\ file_params.tags = Put(FileTags, "xc", file_params.tags["xc"])

\* files that fit hse03, and with it pbe0 and lda
C9_Witness ==
    /\ FilesRead
    /\ PresetFits("hse03") /\ PresetFits("pbe0") /\ PresetFits("lda")
    /\ file_params.tags["xc"] = "hse03"

\* the number of datasets of the POTCAR file
PotcarDatasets ==
    Cardinality({n \in 1..Len(on_file.potcar_lines) :
                   on_file.potcar_lines[n].text = "title"})

\* C8 as stated: when ldau_luj is reconstructed and the ldaul, ldauj, ldauu
\* arrays do not all have one entry per POTCAR dataset, check_state fails.
C8_MismatchIsFailure ==
    (/\ FilesRead
     /\ {"ldaul", "ldauj", "ldauu"} \subseteq DOMAIN on_file.incar_arrays
     /\ PotcarDatasets > 0
     /\ \E a \in {"ldaul", "ldauj", "ldauu"} :
          Len(on_file.incar_arrays[a]) # PotcarDatasets)
    => check_exc # None

(***************************************************************************)
(* Properties of calculation_required and calculate.                       *)
(***************************************************************************)
\* calculation_required has answered and calculate has done nothing since
RequiredAnswered ==
    required # "not called" /\ calls = <<>> /\ pc # "done"

CalculateEnded == pc \in {"raised", "done"}

\* C4 as stated: in state EMPTY calculation_required returns True, whatever
\* the atom changes, the cached results and the output files.
C4_EmptyAlwaysRequired ==
    (RequiredAnswered /\ state_exc = None /\ state = Vasp_EMPTY)
    => required = "True"

\* What the code does in state EMPTY: calculation_required returns True if
\* and only if FileIOCalculator.check_state reports a change other than pbc
\* or a requested property is not in the cached results.
EmptyRequiredIffChangeOrMissing ==
    (RequiredAnswered /\ state_exc = None /\ state = Vasp_EMPTY)
    =>
    (required = "True"
       <=> \/ base_changes \ {"pbc"} # {}
           \/ \E n \in 1..Len(properties) : properties[n] \notin results)

\* C5: when calculate ends, by returning or by raising, the working
\* directory is the one it was called in; and if the engine exited with a
\* nonzero code it ends with a RuntimeError naming VASP and that code.
C5_CwdRestored ==
    CalculateEnded =>
      /\ cwd = cwd0
      /\ errorcode \notin {NoCode, 0} =>
           /\ pc = "raised"
           /\ calc_exc = [type |-> "RuntimeError",
                          text |-> "VASP returned an error: ",
                          code |-> errorcode]

\* the engine ran in the calculation directory and exited with code 1
C5_Witness ==
    /\ pc = "raised"
    /\ errorcode = 1
    /\ cwd0 = Home /\ olddir = Home /\ cwd = Home
    /\ calls = <<"write_input", "engine">>

IsPrefix(s, t) == Len(s) <= Len(t) /\ SubSeq(t, 1, Len(s)) = s

\* C11: the calls of one calculate are ordered.  When a run is required
\* they are a prefix of write_input, engine, read_results; read_results is
\* called only with the engine's exit code 0, and neither the engine nor
\* read_results is called without a command.  When no run is required
\* (False or no verdict) read_results is the only call, made exactly once
\* by the time calculate ends.  When calculation_required raises nothing is
\* called.
C11_StepsOrdered ==
    /\ required = "True" =>
         /\ IsPrefix(calls, <<"write_input", "engine", "read_results">>)
         /\ InList("read_results", calls) => errorcode = 0
         /\ command = None =>
              ~InList("engine", calls) /\ ~InList("read_results", calls)
    /\ required \in {"False", None} =>
         /\ IsPrefix(calls, <<"read_results">>)
         /\ CalculateEnded => calls = <<"read_results">>
    /\ required \in {"not called", "raised"} => calls = <<>>

\* a required run that went through all three steps
C11_Witness ==
    /\ pc = "done"
    /\ required = "True"
    /\ errorcode = 0
    /\ calls = <<"write_input", "engine", "read_results">>

\* check_state reported a change, or a requested property is not cached
ChangeOrMissing ==
    system_changes # {} \/ property_missing(properties, results)

\* C13 as stated: when check_state returns, calculation_required returns
\* True only if a change is reported or a requested property is missing;
\* otherwise it returns False for an OUTCAR whose last line holds the marker
\* and falls through with no verdict for any other OUTCAR or none; and the
\* engine is started only after a True.
C13_RequiredOnlyOnChange ==
    /\ (RequiredAnswered /\ check_exc = None) =>
         /\ required = "True" => ChangeOrMissing
         /\ ~ChangeOrMissing =>
              required = IF /\ files.OUTCAR /\ files.outcar_lines # <<>>
                            /\ HasMarker(
                                 files.outcar_lines[Len(files.outcar_lines)])
                         THEN "False" ELSE None
    /\ InList("engine", calls) => required = "True"

\* What the code does: True is returned only on a change or a missing
\* property, and the engine is started only after a True; with neither, the
\* answer is False, no verdict, or an IndexError for an OUTCAR without
\* lines.
TrueOnlyOnChangeOrMissing ==
    /\ (RequiredAnswered /\ check_exc = None) =>
         /\ required = "True" <=> ChangeOrMissing
         /\ required = "raised" =>
              files.OUTCAR /\ files.outcar_lines = <<>>
    /\ InList("engine", calls) => required = "True"

(***************************************************************************)
(* Properties of get_state.                                                *)
(***************************************************************************)
StateCalled == state_exc # "not called"

\* C2: a directory missing one of INCAR, POSCAR, POTCAR, KPOINTS is EMPTY,
\* except the NEB layout (INCAR, POTCAR, KPOINTS and the directory 00, no
\* POSCAR), which is NEB; without KPOINTS it is always EMPTY.
C2_MissingInputIsEmpty ==
    StateCalled =>
      /\ (~files.INCAR \/ ~files.POSCAR \/ ~files.POTCAR \/ ~files.KPOINTS) =>
           /\ state_exc = None
           /\ state = IF /\ files.INCAR /\ files.POTCAR /\ files.KPOINTS
                         /\ ~files.POSCAR /\ files.dir00
                      THEN Vasp_NEB ELSE Vasp_EMPTY
      /\ ~files.KPOINTS => state = Vasp_EMPTY

\* no KPOINTS, but everything else a finished, submitted job would have
C2_Witness ==
    /\ StateCalled
    /\ ~files.KPOINTS /\ files.INCAR /\ files.POSCAR /\ files.POTCAR
    /\ files.dir00 /\ jobid # None /\ files.CONTCAR
    /\ files.OUTCAR /\ files.outcar_lines # <<>>
    /\ HasMarker(files.outcar_lines[Len(files.outcar_lines)])
    /\ state = Vasp_EMPTY

\* C3 as stated: with the four input files, not NEW and never in the queue,
\* get_state returns FINISHED if OUTCAR exists and its last line holds the
\* marker, and NOTFINISHED otherwise, an OUTCAR without lines included.
C3_FinishedOrNotFinished ==
    (/\ StateCalled
     /\ files.INCAR /\ files.POSCAR /\ files.POTCAR /\ files.KPOINTS
     /\ ~(jobid # None /\ ~files.OUTCAR)
     /\ \A j \in 1..Len(queue) : ~queue[j])
    =>
    /\ state_exc = None
    /\ state = IF /\ files.OUTCAR /\ files.outcar_lines # <<>>
                  /\ HasMarker(files.outcar_lines[Len(files.outcar_lines)])
               THEN Vasp_FINISHED ELSE Vasp_NOTFINISHED

\* C7 as stated: get_state depends on one in_queue() answer only: even if
\* queue membership changes while it runs, it returns what the priority
\* order gives for the directory with in_queue() constantly true or
\* constantly false.
C7_OneOracleAnswer ==
    StateCalled =>
      \E b \in BOOLEAN :
        LET r == get_state(files, jobid, [j \in 1..4 |-> b])
        IN state = r.value /\ state_exc = r.exc

\* in_queue() gave the same answer every time it was asked
ConstantOracle == \A j, k \in 1..Len(queue) : queue[j] = queue[k]

EmptyContcarCleanup == cloned.branch = "emptycontcar"

(***************************************************************************)
(* Properties of sort_atoms.                                               *)
(***************************************************************************)
SortReturned == sort_exc = "returned"

\* r lists each atom index 0..n-1 exactly once
IsBijection(r, n) ==
    /\ Len(r) = n
    /\ \A a \in 0..(n - 1) : Cardinality({j \in 1..Len(r) : r[j] = a}) = 1

\* number of resort positions taken by the groups before group g
RECURSIVE Offset(_, _)
Offset(ppp, g) == IF g <= 1 THEN 0 ELSE ppp[g - 1].count + Offset(ppp, g - 1)

\* the entries of r at the positions that group g of ppp occupies
Block(ppp, r, g) ==
    {r[j] : j \in {q \in 1..Len(r) :
                     Offset(ppp, g) < q /\ q <= Offset(ppp, g) + ppp[g].count}}

IndexKeys == {setups[j].key : j \in {q \in 1..Len(setups) :
                                       IsIndexSetup(setups[q])}}

AllIndexKeysValid == \A k \in IndexKeys : PyIndexValid(k, Len(atoms))

SomeIndexRepeatedOrNegative ==
    \/ \E k \in IndexKeys : k < 0
    \/ \E j, q \in 1..Len(setups) :
         /\ j # q /\ IsIndexSetup(setups[j]) /\ IsIndexSetup(setups[q])
         /\ setups[j].key = setups[q].key

C6_IndexOverridePriority ==
    SortReturned =>
      /\ \A j, q \in 1..Len(setups) :
           (/\ IsIndexSetup(setups[j]) /\ IsSymbolSetup(setups[q])
            /\ PyIndexValid(setups[j].key, Len(atoms))
            /\ symbol_at(atoms, setups[j].key) = setups[q].key)
           =>
           LET i == setups[j].key
           IN /\ \E g \in 1..Len(ppp_list) :
                   /\ ppp_list[g] = [kind |-> "index", key |-> i,
                                     path |-> potcar_path(pp, setups[q].key,
                                                          setups[j].suffix),
                                     count |-> 1]
                   /\ Block(ppp_list, resort, g) = {i}
              /\ \A g \in 1..Len(ppp_list) :
                   ppp_list[g].kind = "symbol" =>
                     i \notin Block(ppp_list, resort, g)
      /\ \A g, h \in 1..Len(ppp_list) :
           (g < h /\ ppp_list[g].kind = "symbol") =>
             ppp_list[h].kind = "symbol"

\* Both orders of the two overrides, the atom not the first of its symbol.
C6_Witness ==
    /\ SortReturned
    /\ Len(setups) = 2
    /\ IsSymbolSetup(setups[1]) /\ IsIndexSetup(setups[2])
    /\ setups[2].key > 0
    /\ symbol_at(atoms, setups[2].key) = setups[1].key
    /\ atoms[1] = setups[1].key

\* the POTCAR path of the atom at resort position q
PathAt(q) ==
    LET g == CHOOSE h \in 1..Len(ppp_list) :
               Offset(ppp_list, h) < q
               /\ q <= Offset(ppp_list, h) + ppp_list[h].count
    IN ppp_list[g].path

\* C10 as stated: atoms with the same POTCAR path are adjacent in resort.
C10_SamePathAdjacent ==
    SortReturned =>
      \A p, q, r \in 1..Len(resort) :
        (p < q /\ q < r /\ PathAt(p) = PathAt(r)) => PathAt(q) = PathAt(p)

\* C10 amended: the atoms of one ppp_list group are adjacent: group g takes
\* the count_g resort positions after those of the groups before it, and
\* these hold the atom of its index, or atoms of its symbol only.
C10_GroupsAreBlocks ==
    SortReturned =>
      \A g \in 1..Len(ppp_list) :
        /\ Cardinality(Block(ppp_list, resort, g)) = ppp_list[g].count
        /\ \A a \in Block(ppp_list, resort, g) :
             /\ a \in 0..(Len(atoms) - 1)
             /\ IF ppp_list[g].kind = "index"
                THEN a = ppp_list[g].key
                ELSE atoms[a + 1] = ppp_list[g].key

\* two groups of one path with a group of another path between them
C10_Witness ==
    /\ SortReturned
    /\ \E p, q, r \in 1..Len(resort) :
         p < q /\ q < r /\ PathAt(p) = PathAt(r) /\ PathAt(q) # PathAt(p)

IndexSetups == SelectSeq(setups, IsIndexSetup)
SymbolSetups == SelectSeq(setups, IsSymbolSetup)

\* the 1-based position at which a symbol of the structure first appears
FirstAt(symbol) ==
    CHOOSE i \in 1..Len(atoms) :
      atoms[i] = symbol /\ \A j \in 1..(i - 1) : atoms[j] # symbol

\* the atoms of a symbol that no index override names
NotIndexed(symbol) ==
    {i \in 0..(Len(atoms) - 1) : atoms[i + 1] = symbol /\ i \notin IndexKeys}

\* C12: when sort_atoms returns, ppp_list holds, after the index groups, one
\* group per symbol override, in the order given, with the override's key
\* and path; its count is the number of atoms of the symbol that no index
\* override names for the first override of a symbol and 0 for a later
\* one.  The groups after these are the default ones: count >= 1, plain
\* path, symbols without an override, in the order of first appearance, and
\* none is missing.  A setups list whose index overrides are in range,
\* non-negative and distinct never makes sort_atoms fail, whatever symbol
\* overrides it holds.
C12_SymbolGroupsAlwaysEmitted ==
    /\ SortReturned =>
         LET ni == Len(IndexSetups)
             ns == Len(SymbolSetups)
             overridden == {SymbolSetups[j].key : j \in 1..ns}
         IN /\ Len(ppp_list) >= ni + ns
            /\ \A j \in 1..ns :
                 ppp_list[ni + j] =
                   [kind |-> "symbol", key |-> SymbolSetups[j].key,
                    path |-> potcar_path(pp, SymbolSetups[j].key,
                                         SymbolSetups[j].suffix),
                    count |-> IF \E q \in 1..(j - 1) :
                                    SymbolSetups[q].key = SymbolSetups[j].key
                              THEN 0
                              ELSE Cardinality(NotIndexed(SymbolSetups[j].key))]
            /\ \A g \in (ni + ns + 1)..Len(ppp_list) :
                 /\ ppp_list[g].kind = "symbol"
                 /\ ppp_list[g].count >= 1
                 /\ ppp_list[g].count = Cardinality(NotIndexed(ppp_list[g].key))
                 /\ ppp_list[g].path = potcar_path(pp, ppp_list[g].key, "")
                 /\ ppp_list[g].key \notin overridden
                 /\ \A h \in (g + 1)..Len(ppp_list) :
                      FirstAt(ppp_list[g].key) < FirstAt(ppp_list[h].key)
            /\ \A i \in 1..Len(atoms) :
                 (atoms[i] \notin overridden /\ NotIndexed(atoms[i]) # {}) =>
                   \E g \in (ni + ns + 1)..Len(ppp_list) :
                     ppp_list[g].key = atoms[i]
    /\ (sort_exc # "not called" /\ AllIndexKeysValid
          /\ ~SomeIndexRepeatedOrNegative) => SortReturned

\* two overrides of one symbol, the second claiming nothing, and a default
\* group after them
C12_Witness ==
    /\ SortReturned
    /\ Len(SymbolSetups) = 2
    /\ SymbolSetups[1].key = SymbolSetups[2].key
    /\ Len(ppp_list) = 3
    /\ ppp_list[1].count >= 1 /\ ppp_list[2].count = 0
    /\ ppp_list[3].count >= 1

====
